---------------------------- MODULE Spec2Model ----------------------------
(***************************************************************************)
(* Model of metrical (src/src/main.rs): a metrics store that keeps one     *)
(* entry per "<name>:<key>:<timestamp>" text key in an ordered key-value   *)
(* store (rocksdb) and reads a series back with a forward scan.            *)
(*                                                                         *)
(* Text is a sequence of one-character strings; the store orders keys by   *)
(* the byte values of their characters (rocksdb's default bytewise         *)
(* comparator).                                                            *)
(***************************************************************************)
EXTENDS Integers, Sequences, FiniteSets, TLC

(***************************************************************************)
(* Bounds of the model.                                                    *)
(***************************************************************************)
\* The number of entries the store may hold (overwrites are not limited).
MaxEntries == 2

\* The number of requests the handling tasks make in all.
MaxCalls == 3

(***************************************************************************)
(* Text, byte order and the conversions of the key codec.                  *)
(***************************************************************************)
\* The delimiter of format!("{}:{}:{}") and key.split(':').
Delim == ":"

DigitChars == <<"0", "1", "2", "3", "4", "5", "6", "7", "8", "9">>

\* The byte value of each character the model uses (ASCII).
Ord(c) ==
  CASE c = "+" -> 43
    [] c = "." -> 46
    [] c = "0" -> 48 [] c = "1" -> 49 [] c = "2" -> 50 [] c = "3" -> 51
    [] c = "4" -> 52 [] c = "5" -> 53 [] c = "6" -> 54 [] c = "7" -> 55
    [] c = "8" -> 56 [] c = "9" -> 57
    [] c = ":" -> 58
    [] c = "N" -> 78
    [] c = "a" -> 97 [] c = "b" -> 98 [] c = "c" -> 99

IsDigit(c) == \E d \in 1..10 : DigitChars[d] = c

DigitVal(c) == (CHOOSE d \in 1..10 : DigitChars[d] = c) - 1

\* Byte-lexicographic order on text: a proper prefix sorts first.
RECURSIVE LexLess(_, _)
LexLess(s, t) ==
  IF t = <<>> THEN FALSE
  ELSE IF s = <<>> THEN TRUE
  ELSE IF Ord(Head(s)) # Ord(Head(t)) THEN Ord(Head(s)) < Ord(Head(t))
  ELSE LexLess(Tail(s), Tail(t))

\* u64's Display: unpadded decimal text.
RECURSIVE U64ToString(_)
U64ToString(n) ==
  IF n < 10 THEN <<DigitChars[n + 1]>>
  ELSE U64ToString(n \div 10) \o <<DigitChars[(n % 10) + 1]>>

RECURSIVE DigitsValue(_, _)
DigitsValue(s, acc) ==
  IF s = <<>> THEN acc ELSE DigitsValue(Tail(s), acc * 10 + DigitVal(Head(s)))

\* str::parse::<u64>: an optional leading '+', then one or more decimal
\* digits. (Digit runs in the model are far shorter than 20 characters, so
\* the overflow error of u64 is out of reach and is not modelled.)
parse_u64(s) ==
  LET body == IF s # <<>> /\ Head(s) = "+" THEN Tail(s) ELSE s
  IN  IF body # <<>> /\ \A i \in 1..Len(body) : IsDigit(body[i])
      THEN [ok |-> TRUE, val |-> DigitsValue(body, 0)]
      ELSE [ok |-> FALSE, val |-> 0]

\* An f64 of the model: NaN, or a non-negative number of tenths.
NaN == [nan |-> TRUE, tenths |-> 0]

Num(t) == [nan |-> FALSE, tenths |-> t]

\* f64's PartialEq (derived into Metric's): NaN equals nothing, itself included.
f64_eq(x, y) == ~x.nan /\ ~y.nan /\ x.tenths = y.tenths

\* f64's Display: shortest text that parses back; 1.0 prints as "1".
f64_to_string(v) ==
  IF v.nan THEN <<"N", "a", "N">>
  ELSE U64ToString(v.tenths \div 10)
         \o (IF v.tenths % 10 = 0 THEN <<>>
             ELSE <<".", DigitChars[(v.tenths % 10) + 1]>>)

\* str::parse::<f64> on the texts Display produces: "NaN", digits, or digits
\* '.' digit; anything else is a ParseFloatError.
parse_f64(s) ==
  LET AllDigits(t) == t # <<>> /\ \A i \in 1..Len(t) : IsDigit(t[i])
      n == Len(s)
  IN  IF s = <<"N", "a", "N">> THEN [ok |-> TRUE, val |-> NaN]
      ELSE IF AllDigits(s) THEN [ok |-> TRUE, val |-> Num(DigitsValue(s, 0) * 10)]
      ELSE IF n >= 3 /\ s[n - 1] = "." /\ IsDigit(s[n]) /\ AllDigits(SubSeq(s, 1, n - 2))
           THEN [ok |-> TRUE,
                 val |-> Num(DigitsValue(SubSeq(s, 1, n - 2), 0) * 10 + DigitVal(s[n]))]
      ELSE [ok |-> FALSE, val |-> NaN]

\* Variant of Split: cuts at the first and at the last delimiter only.
Split_outer(s) ==
  LET D == {j \in 1..Len(s) : s[j] = Delim}
  IN  IF Cardinality(D) < 2 THEN <<s>>
      ELSE LET i == CHOOSE j \in D : \A k \in D : j <= k
               l == CHOOSE j \in D : \A k \in D : j >= k
           IN  <<SubSeq(s, 1, i - 1), SubSeq(s, i + 1, l - 1), SubSeq(s, l + 1, Len(s))>>

\* key.split(':').collect(): the pieces between delimiters, empty ones kept.
RECURSIVE Split(_)
Split(s) ==
  IF \A i \in 1..Len(s) : s[i] # Delim THEN <<s>>
  ELSE LET i == CHOOSE j \in 1..Len(s) :
                  s[j] = Delim /\ \A k \in 1..(j - 1) : s[k] # Delim
       IN  <<SubSeq(s, 1, i - 1)>> \o Split(SubSeq(s, i + 1, Len(s)))

\* Variant of encodeKey: an empty field is left out, with its delimiter.
encodeKey_skip(name, key, timestamp) ==
  (IF name = <<>> THEN <<>> ELSE name \o <<Delim>>)
    \o (IF key = <<>> THEN <<>> ELSE key \o <<Delim>>)
    \o U64ToString(timestamp)

\* format!("{}:{}:{}", metric.name, metric.key, metric.timestamp)
encodeKey(name, key, timestamp) ==
  name \o <<Delim>> \o key \o <<Delim>> \o U64ToString(timestamp)

\* format!("{}:{}:", name, key)
encodePrefix(name, key) == name \o <<Delim>> \o key \o <<Delim>>

(***************************************************************************)
(* The store (rocksdb::DB) and the engine (Metrical).                      *)
(***************************************************************************)
\* struct Metric { name, key, timestamp, value }
Metric(name, key, timestamp, value) ==
  [name |-> name, key |-> key, timestamp |-> timestamp, value |-> value]

\* Metric's derived PartialEq: field by field, value by f64's equality.
metric_eq(m, n) ==
  /\ m.name = n.name
  /\ m.key = n.key
  /\ m.timestamp = n.timestamp
  /\ f64_eq(m.value, n.value)

\* Variant of SortKeys: shorter keys first, byte order among equal lengths.
RECURSIVE SortKeys_shortlex(_)
SortKeys_shortlex(S) ==
  IF S = {} THEN <<>>
  ELSE LET m == CHOOSE x \in S : \A y \in S \ {x} :
                  Len(x) < Len(y) \/ (Len(x) = Len(y) /\ LexLess(x, y))
       IN  <<m>> \o SortKeys_shortlex(S \ {m})

\* The keys of a set in ascending byte order.
RECURSIVE SortKeys(_)
SortKeys(S) ==
  IF S = {} THEN <<>>
  ELSE LET m == CHOOSE x \in S : \A y \in S \ {x} : LexLess(x, y)
       IN  <<m>> \o SortKeys(S \ {m})

\* db.prefix_iterator(prefix) on a store opened with DB::open_default: the
\* iterator seeks to the first key >= prefix and walks forward in key order.
\* prefix_iterator only sets ReadOptions::prefix_same_as_start, which rocksdb
\* honours when the column family has a prefix extractor; open_default
\* configures none, so the walk is not cut off where the prefix stops
\* matching and runs to the last key of the store.
prefix_iterator(d, prefix) ==
  SortKeys({k \in DOMAIN d : ~LexLess(k, prefix)})

\* Variant of put: the store is left with the one entry written.
put_alone(d, k, v) == (k :> v)

\* Variant of put: an existing entry keeps its value.
put_if_absent(d, k, v) == IF k \in DOMAIN d THEN d ELSE d @@ (k :> v)

\* db.put(key, value): insert or overwrite one entry.
put(d, k, v) == [x \in DOMAIN d \cup {k} |-> IF x = k THEN v ELSE d[x]]

\* Metrical::add_metric: the store after the put.
add_metric(d, metric) ==
  LET key == encodeKey(metric.name, metric.key, metric.timestamp)
      value == f64_to_string(metric.value)
  IN  put(d, key, value)

Ok(metrics) == [tag |-> "Ok", metrics |-> metrics, err |-> "none"]

Err(e) == [tag |-> "Err", metrics |-> <<>>, err |-> e]

\* parts[2] on a Vec of fewer than three elements: index out of bounds.
Panic == [tag |-> "panic", metrics |-> <<>>, err |-> "index out of bounds"]

\* Variant of decode: name and key taken from each other's part.
decode_swapped(d, key) ==
  LET parts == Split(key)
  IN  IF Len(parts) < 3 THEN Panic
      ELSE LET timestamp == parse_u64(parts[3])
               value == parse_f64(d[key])
           IN  IF ~timestamp.ok THEN Err("ParseIntError")
               ELSE IF ~value.ok THEN Err("ParseFloatError")
               ELSE Ok(<<Metric(parts[2], parts[1], timestamp.val, value.val)>>)

\* The body of the for loop of get_metrics for the entry at `key`: the
\* decoded Metric, or the error `?` returns, or the panic of parts[2].
\* (Keys and values are written from Rust Strings, so from_utf8 succeeds.)
decode(d, key) ==
  LET parts == Split(key)
  IN  IF Len(parts) < 3 THEN Panic
      ELSE LET timestamp == parse_u64(parts[3])
               value == parse_f64(d[key])
           IN  IF ~timestamp.ok THEN Err("ParseIntError")
               ELSE IF ~value.ok THEN Err("ParseFloatError")
               ELSE Ok(<<Metric(parts[1], parts[2], timestamp.val, value.val)>>)

\* Variant of scan: each decoded Metric is put at the front of the result.
RECURSIVE scan_prepend(_, _, _, _)
scan_prepend(d, iter, i, metrics) ==
  IF i > Len(iter) THEN Ok(metrics)
  ELSE LET r == decode(d, iter[i])
       IN  IF r.tag # "Ok" THEN r
           ELSE scan_prepend(d, iter, i + 1, r.metrics \o metrics)

\* Variant of scan: an entry that fails to decode ends the loop, and what
\* was decoded before it is returned.
RECURSIVE scan_partial(_, _, _, _)
scan_partial(d, iter, i, metrics) ==
  IF i > Len(iter) THEN Ok(metrics)
  ELSE LET r == decode(d, iter[i])
       IN  IF r.tag # "Ok" THEN Ok(metrics)
           ELSE scan_partial(d, iter, i + 1, metrics \o r.metrics)

\* The for loop of get_metrics over the iterator, from position i on.
RECURSIVE scan(_, _, _, _)
scan(d, iter, i, metrics) ==
  IF i > Len(iter) THEN Ok(metrics)
  ELSE LET r == decode(d, iter[i])
       IN  IF r.tag # "Ok" THEN r
           ELSE scan(d, iter, i + 1, metrics \o r.metrics)

\* Metrical::get_metrics
get_metrics(d, name, key) ==
  scan(d, prefix_iterator(d, encodePrefix(name, key)), 1, <<>>)

(***************************************************************************)
(* Start-up: the data directory, the store, the global instance.           *)
(* The file system is the part create_db_dir can see: the two directories  *)
(* above the default store path, "/etc" and "/etc/metrical", each absent,  *)
(* a directory or a regular file, and whether the process may create       *)
(* entries in "/" and in "/etc".                                           *)
(***************************************************************************)
\* The values of --db-path the model starts with: the default, a path one
\* level up, a bare file name and the root.
DefaultPath == "/etc/metrical/default.db"

Paths == {DefaultPath, "/etc/default.db", "default.db", "/"}

NoPath == [some |-> FALSE, val |-> ""]

SomePath(d) == [some |-> TRUE, val |-> d]

\* Path::parent: the path without its last component; None for the root.
\* The parent of a bare file name is the empty path.
parent(p) ==
  CASE p = "/" -> NoPath
    [] p = "default.db" -> SomePath("")
    [] p = "/etc/default.db" -> SomePath("/etc")
    [] p = "/etc/metrical/default.db" -> SomePath("/etc/metrical")
    [] p = "/etc/metrical" -> SomePath("/etc")
    [] p = "/etc" -> SomePath("/")

FsStates ==
  {f \in [etc : {"absent", "dir", "file"}, metrical : {"absent", "dir", "file"},
          rootW : BOOLEAN, etcW : BOOLEAN] :
     f.etc # "dir" => (f.metrical = "absent" /\ ~f.etcW)}

is_dir(f, d) ==
  CASE d = "/etc" -> f.etc = "dir"
    [] d = "/etc/metrical" -> f.etc = "dir" /\ f.metrical = "dir"
    [] OTHER -> TRUE

IoOk(f) == [err |-> "none", fs |-> f]

IoErr(kind, f) == [err |-> kind, fs |-> f]

\* mkdir(2) on one directory, with the io::ErrorKind of its errno.
mkdir(f, d) ==
  IF d = "/etc"
  THEN IF f.etc # "absent" THEN IoErr("AlreadyExists", f)
       ELSE IF ~f.rootW THEN IoErr("PermissionDenied", f)
       ELSE IoOk([f EXCEPT !.etc = "dir", !.etcW = TRUE])
  ELSE IF f.etc = "absent" THEN IoErr("NotFound", f)
       ELSE IF f.etc = "file" THEN IoErr("NotADirectory", f)
       ELSE IF f.metrical # "absent" THEN IoErr("AlreadyExists", f)
       ELSE IF ~f.etcW THEN IoErr("PermissionDenied", f)
       ELSE IoOk([f EXCEPT !.metrical = "dir"])

\* std::fs::create_dir_all: the empty path is done at once; otherwise mkdir,
\* and on NotFound the parent first and mkdir again; an error on a path that
\* is a directory counts as success.
RECURSIVE create_dir_all(_, _)
create_dir_all(f, d) ==
  IF d = "" THEN IoOk(f)
  ELSE LET r == mkdir(f, d)
       IN  IF r.err = "none" THEN r
           ELSE IF r.err = "NotFound"
           THEN LET up == create_dir_all(f, parent(d).val)
                IN  IF up.err # "none" THEN up
                    ELSE LET r2 == mkdir(up.fs, d)
                         IN  IF r2.err # "none" /\ is_dir(r2.fs, d) THEN IoOk(r2.fs)
                             ELSE r2
           ELSE IF is_dir(f, d) THEN IoOk(f)
           ELSE r

\* What one create_db_dir call did: the outcome of create_dir_all ("none"
\* when it was not called), the Result returned, the file system afterwards.
DirOutcome(io, tag, err, f) == [io |-> io, tag |-> tag, err |-> err, fs |-> f]

PermissionMessage == "Permission denied to create the data directory"

MiscMessage == "Miscellaneous error creating the data directory"

\* Variant of create_db_dir: AlreadyExists falls under the other errors.
create_db_dir_strict(f, db_path) ==
  LET dir == parent(db_path)
  IN  IF ~dir.some
      THEN DirOutcome("none", "Err", "Failed to get the data directory", f)
      ELSE LET result == create_dir_all(f, dir.val)
           IN  IF result.err = "none" THEN DirOutcome("Ok", "Ok", "none", result.fs)
               ELSE IF result.err = "PermissionDenied"
               THEN DirOutcome(result.err, "Err", PermissionMessage, result.fs)
               ELSE DirOutcome(result.err, "Err", MiscMessage, result.fs)

\* fn create_db_dir
create_db_dir(f, db_path) ==
  LET dir == parent(db_path)
  IN  IF ~dir.some
      THEN DirOutcome("none", "Err", "Failed to get the data directory", f)
      ELSE LET result == create_dir_all(f, dir.val)
           IN  IF result.err = "none" THEN DirOutcome("Ok", "Ok", "none", result.fs)
               ELSE IF result.err = "AlreadyExists"
               THEN DirOutcome(result.err, "Ok", "none", result.fs)
               ELSE IF result.err = "PermissionDenied"
               THEN DirOutcome(result.err, "Err", PermissionMessage, result.fs)
               ELSE DirOutcome(result.err, "Err", MiscMessage, result.fs)

\* DB::open_default(db_path) under Metrical::new: the outcomes it can have.
\* It fails when the directory of the store is not there; where it is, the
\* open can still fail (the store's LOCK held by another process, no right
\* to write, damaged files).
open_default(f, db_path) ==
  LET dir == parent(db_path)
  IN  IF dir.some /\ is_dir(f, dir.val) THEN {"Ok", "Err"} ELSE {"Err"}

\* OnceCell::set: fills an empty cell, and is refused on a full one.
once_cell_set(cell) ==
  IF cell = "unset" THEN [ok |-> TRUE, cell |-> "set"] ELSE [ok |-> FALSE, cell |-> cell]

\* Variant of get_instance: the cell's content is taken without the check.
get_instance_unchecked(cell) == "Ok"

\* Metrical::get_instance: INSTANCE.get().expect(..) panics on an empty cell.
get_instance(cell) == IF cell = "set" THEN "Ok" ELSE "panic"

\* Variant of proceeds: the error of a start-up step is dropped.
proceeds_always(tag) == TRUE

\* The ? after a start-up step of main: main goes on only on Ok.
proceeds(tag) == tag = "Ok"

(***************************************************************************)
(* Inputs.                                                                 *)
(***************************************************************************)
\* The series written and queried: a plain one, one under another name, and
\* two whose key holds the delimiter (the third part of their stored keys is
\* the digit "1" for one and the letter "c" for the other).
Series ==
  { <<<<"a">>, <<"b">>>>,
    <<<<"b">>, <<"b">>>>,
    <<<<"a">>, <<"b", ":", "1">>>>,
    <<<<"a">>, <<"b", ":", "c">>>> }

\* The timestamps written to a series: 1 and 9 have one digit, 10 has two.
Timestamps(series) == IF series = <<<<"a">>, <<"b">>>> THEN {1, 9, 10} ELSE {9}

Values == {Num(5), Num(10), NaN}

Metrics ==
  UNION {{Metric(sr[1], sr[2], t, v) : t \in Timestamps(sr), v \in Values} : sr \in Series}

HasDelim(s) == \E i \in 1..Len(s) : s[i] = Delim

(***************************************************************************)
(* State: the store, and a record of the calls made on the engine.         *)
(***************************************************************************)
VARIABLES
  db,      \* Metrical.db: the entries of the store, key text -> value text
  call,    \* the last call made on the engine
  ret,     \* what the last call returned
  pred,    \* for a get_metrics call: the add_metric call made just before it
  lww,     \* the last add_metric that replaced a different value at its key
  again,   \* for a get_metrics call: the call before it was the same query
  lock,    \* the RwLock around the engine: the task holding it, or "free"
  queue,   \* the tasks suspended in write().await, in arrival order
  pc,      \* where each request-handling task stands
  req,     \* the call each task is making
  res,     \* what each task's call returned
  order,   \* the Samples of the add_metric calls, in lock-acquisition order
  seen,    \* for each task: how many of them had the lock before it
  calls,   \* the number of requests made so far
  main,    \* where fn main stands
  inst,    \* the OnceCell INSTANCE: "unset" or "set"
  path,    \* args.db_path
  fs,      \* the directories above the store path, and who may write there
  dirlog,  \* one record per create_db_dir call made: its outcome
  steps,   \* the start-up steps of main that succeeded, in order
  exit     \* what main returned, "none" while it runs

engineVars == <<call, ret, pred, lww, again>>

taskVars == <<lock, queue, pc, req, res, order, seen, calls>>

bootVars == <<main, inst, path, fs, dirlog, steps, exit>>

vars ==
  <<db, call, ret, pred, lww, again, lock, queue, pc, req, res, order, seen, calls,
    main, inst, path, fs, dirlog, steps, exit>>

NoMetric == Metric(<<>>, <<>>, 0, NaN)

NoCall == [kind |-> "none", metric |-> NoMetric, name |-> <<>>, key |-> <<>>]

None == [some |-> FALSE, metric |-> NoMetric]

Some(m) == [some |-> TRUE, metric |-> m]

\* The request-handling tasks.
Tasks == {"t1", "t2"}

NoResult == [tag |-> "none", metrics |-> <<>>, err |-> "none"]

\* The steps of main before it serves, in program order.
StartupSteps == <<"create_db_dir", "Metrical::new", "INSTANCE.set", "http::serve">>

\* The directories once create_db_dir has made them for the default path.
ServingFs == [etc |-> "dir", metrical |-> "dir", rootW |-> TRUE, etcW |-> TRUE]

\* The process once main serves, on a fresh path: the directories made, an
\* empty store opened, the instance set; no call made, no task started, the
\* lock free.
Init ==
  /\ db = <<>>
  /\ call = NoCall
  /\ ret = Ok(<<>>)
  /\ pred = None
  /\ lww = None
  /\ lock = "free"
  /\ queue = <<>>
  /\ pc = [t \in Tasks |-> "idle"]
  /\ req = [t \in Tasks |-> NoCall]
  /\ res = [t \in Tasks |-> NoResult]
  /\ order = <<>>
  /\ seen = [t \in Tasks |-> 0]
  /\ calls = 0
  /\ again = FALSE
  /\ main = "serving"
  /\ inst = "set"
  /\ path = DefaultPath
  /\ fs = ServingFs
  /\ dirlog = <<DirOutcome("Ok", "Ok", "none", ServingFs)>>
  /\ steps = StartupSteps
  /\ exit = "none"

\* A call of add_metric(metric).
Ingest(metric) ==
  LET k == encodeKey(metric.name, metric.key, metric.timestamp)
  IN  /\ k \in DOMAIN db \/ Cardinality(DOMAIN db) < MaxEntries
      /\ db' = add_metric(db, metric)
      /\ call' = [kind |-> "add_metric", metric |-> metric, name |-> <<>>, key |-> <<>>]
      /\ ret' = Ok(<<>>)
      /\ pred' = None
      /\ lww' = IF k \in DOMAIN db /\ db[k] # f64_to_string(metric.value)
                THEN Some(metric)
                ELSE lww
      /\ again' = FALSE
      /\ UNCHANGED taskVars
      /\ UNCHANGED bootVars

\* A call of get_metrics(name, key).
Query(name, key) ==
  /\ call' = [kind |-> "get_metrics", metric |-> NoMetric, name |-> name, key |-> key]
  /\ ret' = get_metrics(db, name, key)
  /\ pred' = IF call.kind = "add_metric" THEN Some(call.metric) ELSE None
  /\ again' = (call.kind = "get_metrics" /\ call.name = name /\ call.key = key)
  /\ UNCHANGED <<db, lww>>
  /\ UNCHANGED taskVars
  /\ UNCHANGED bootVars

Next ==
  \/ \E metric \in Metrics : Ingest(metric)
  \/ \E series \in Series : Query(series[1], series[2])

Spec == Init /\ [][Next]_vars

\* The same calls with any field contents: names and keys that are empty,
\* that are the delimiter alone, and a plain one.
WildTexts == {<<>>, <<":">>, <<"a">>}

WildMetrics == {Metric(n, k, 9, Num(5)) : n \in WildTexts, k \in WildTexts}

WildNext ==
  \/ \E metric \in WildMetrics : Ingest(metric)
  \/ \E name \in WildTexts, key \in WildTexts : Query(name, key)

WildSpec == Init /\ [][WildNext]_vars

(***************************************************************************)
(* The shared instance: request-handling tasks call the engine through     *)
(* the lock of the global Arc<RwLock<Metrical>>. add_metric and get_metrics *)
(* take &mut self, which only the write guard of the RwLock gives.          *)
(* The handlers themselves (mod interface) are modelled from the            *)
(* specification: acquire the write lock, make the one call, release.       *)
(***************************************************************************)
\* The calls the tasks make: writes to one series and the query on it.
TaskMetrics ==
  {Metric(<<"a">>, <<"b">>, t, v) : t \in {9, 10}, v \in {Num(5), Num(10)}}

TaskCalls ==
  {[kind |-> "add_metric", metric |-> m, name |-> <<>>, key |-> <<>>] : m \in TaskMetrics}
    \cup {[kind |-> "get_metrics", metric |-> NoMetric, name |-> <<"a">>, key |-> <<"b">>]}

\* Variant of write_ready: the guard is handed out whoever holds the lock.
write_ready_always(holder) == TRUE

\* RwLock::write resolves only while nobody holds the lock (the model has no
\* readers: no method of the engine takes &self).
write_ready(holder) == holder = "free"

\* A handler starts: it has the instance from get_instance and is about to
\* await the write lock.
Request(t, c) ==
  /\ main # "exited"
  /\ get_instance(inst) = "Ok"
  /\ pc[t] = "idle"
  /\ calls < MaxCalls
  /\ pc' = [pc EXCEPT ![t] = "waiting"]
  /\ req' = [req EXCEPT ![t] = c]
  /\ res' = [res EXCEPT ![t] = NoResult]
  /\ seen' = [seen EXCEPT ![t] = 0]
  /\ queue' = Append(queue, t)
  /\ calls' = calls + 1
  /\ UNCHANGED <<db, lock, order>>
  /\ UNCHANGED engineVars
  /\ UNCHANGED bootVars

\* write().await resolves for the task at the head of the queue.
Acquire(t) ==
  /\ main # "exited"
  /\ pc[t] = "waiting"
  /\ queue # <<>> /\ Head(queue) = t
  /\ write_ready(lock)
  /\ lock' = t
  /\ queue' = Tail(queue)
  /\ pc' = [pc EXCEPT ![t] = "locked"]
  /\ seen' = [seen EXCEPT ![t] = Len(order)]
  /\ order' = IF req[t].kind = "add_metric" THEN Append(order, req[t].metric) ELSE order
  /\ UNCHANGED <<db, req, res, calls>>
  /\ UNCHANGED engineVars
  /\ UNCHANGED bootVars

\* The call on the engine, made through the guard.
Run(t) ==
  /\ main # "exited"
  /\ pc[t] = "locked"
  /\ IF req[t].kind = "add_metric"
     THEN /\ db' = add_metric(db, req[t].metric)
          /\ res' = [res EXCEPT ![t] = Ok(<<>>)]
     ELSE /\ db' = db
          /\ res' = [res EXCEPT ![t] = get_metrics(db, req[t].name, req[t].key)]
  /\ pc' = [pc EXCEPT ![t] = "ran"]
  /\ UNCHANGED <<lock, queue, req, order, seen, calls>>
  /\ UNCHANGED engineVars
  /\ UNCHANGED bootVars

\* Variant of drop_guard: a handler that returns an error keeps the lock.
drop_guard_on_ok(holder, result) == IF result.tag = "Ok" THEN "free" ELSE holder

\* The lock once the handler has returned `result`: the guard is a local of
\* the handler and is dropped on every return.
drop_guard(holder, result) == "free"

\* The handler returns, and its guard goes.
Release(t) ==
  /\ main # "exited"
  /\ pc[t] = "ran"
  /\ lock' = drop_guard(t, res[t])
  /\ pc' = [pc EXCEPT ![t] = "idle"]
  /\ UNCHANGED <<db, queue, req, res, order, seen, calls>>
  /\ UNCHANGED engineVars
  /\ UNCHANGED bootVars

TaskNext ==
  \/ \E t \in Tasks, c \in TaskCalls : Request(t, c)
  \/ \E t \in Tasks : Acquire(t)
  \/ \E t \in Tasks : Run(t)
  \/ \E t \in Tasks : Release(t)

TaskSpec == Init /\ [][TaskNext]_vars

(***************************************************************************)
(* The same tasks with calls that fail: a Sample whose key holds the       *)
(* delimiter makes the query on ("a", "b") fail to decode, and the store   *)
(* may refuse a put or a read.                                             *)
(***************************************************************************)
FaultMetrics ==
  {Metric(<<"a">>, <<"b">>, 9, Num(5)), Metric(<<"a">>, <<"b", ":", "c">>, 9, Num(5))}

FaultCalls ==
  {[kind |-> "add_metric", metric |-> m, name |-> <<>>, key |-> <<>>] : m \in FaultMetrics}
    \cup {[kind |-> "get_metrics", metric |-> NoMetric, name |-> <<"a">>, key |-> <<"b">>]}

\* The call on the engine when the store fails: db.put returns an error, or
\* the iterator yields one, and the call returns it; nothing is written.
RunFail(t) ==
  /\ main # "exited"
  /\ pc[t] = "locked"
  /\ res' = [res EXCEPT ![t] = Err("rocksdb::Error")]
  /\ pc' = [pc EXCEPT ![t] = "ran"]
  /\ UNCHANGED <<db, lock, queue, req, order, seen, calls>>
  /\ UNCHANGED engineVars
  /\ UNCHANGED bootVars

FaultNext ==
  \/ \E t \in Tasks, c \in FaultCalls : Request(t, c)
  \/ \E t \in Tasks : Acquire(t)
  \/ \E t \in Tasks : Run(t)
  \/ \E t \in Tasks : RunFail(t)
  \/ \E t \in Tasks : Release(t)

FaultSpec == Init /\ [][FaultNext]_vars

\* The lock hands itself to the task at the head of its queue once it is
\* free, a task holding the lock keeps running, and a call on the engine
\* ends: each step that stays possible is taken.
FairSpec ==
  /\ FaultSpec
  /\ \A t \in Tasks : WF_vars(Acquire(t))
  /\ \A t \in Tasks : WF_vars(RunFail(t) \/ Run(t))
  /\ \A t \in Tasks : WF_vars(Release(t))

(***************************************************************************)
(* The process from its start: fn main, step by step, on any of the store  *)
(* paths and any state of the directories above it. Callers of             *)
(* get_instance may come at any time while the process runs.               *)
(***************************************************************************)
BootInit ==
  /\ db = <<>>
  /\ call = NoCall
  /\ ret = Ok(<<>>)
  /\ pred = None
  /\ lww = None
  /\ again = FALSE
  /\ lock = "free"
  /\ queue = <<>>
  /\ pc = [t \in Tasks |-> "idle"]
  /\ req = [t \in Tasks |-> NoCall]
  /\ res = [t \in Tasks |-> NoResult]
  /\ order = <<>>
  /\ seen = [t \in Tasks |-> 0]
  /\ calls = 0
  /\ main = "start"
  /\ inst = "unset"
  /\ path \in Paths
  /\ fs \in FsStates
  /\ dirlog = <<>>
  /\ steps = <<>>
  /\ exit = "none"

\* main returns the error of a start-up step.
Fail(e) ==
  /\ main' = "exited"
  /\ exit' = e
  /\ steps' = steps

\* main goes on to its next step.
Pass(step, next) ==
  /\ main' = next
  /\ exit' = exit
  /\ steps' = Append(steps, step)

\* create_db_dir(&args.db_path)?
MainCreateDir ==
  /\ main = "start"
  /\ LET r == create_db_dir(fs, path)
     IN  /\ dirlog' = Append(dirlog, r)
         /\ fs' = r.fs
         /\ IF proceeds(r.tag) THEN Pass("create_db_dir", "dir_created") ELSE Fail(r.err)
  /\ UNCHANGED <<db, inst, path>>
  /\ UNCHANGED engineVars
  /\ UNCHANGED taskVars

\* Metrical::new(args.db_path)?
MainOpen ==
  /\ main = "dir_created"
  /\ \E r \in open_default(fs, path) :
       IF proceeds(r) THEN Pass("Metrical::new", "opened") ELSE Fail("rocksdb: open failed")
  /\ UNCHANGED <<db, inst, path, fs, dirlog>>
  /\ UNCHANGED engineVars
  /\ UNCHANGED taskVars

\* INSTANCE.set(..).map_err(..)?
MainSet ==
  /\ main = "opened"
  /\ LET r == once_cell_set(inst)
     IN  /\ inst' = r.cell
         /\ IF proceeds(IF r.ok THEN "Ok" ELSE "Err")
            THEN Pass("INSTANCE.set", "set")
            ELSE Fail("Failed to set Metrical instance")
  /\ UNCHANGED <<db, path, fs, dirlog>>
  /\ UNCHANGED engineVars
  /\ UNCHANGED taskVars

\* http::serve() is called: requests are accepted from here on.
MainServe ==
  /\ main = "set"
  /\ Pass("http::serve", "serving")
  /\ UNCHANGED <<db, inst, path, fs, dirlog>>
  /\ UNCHANGED engineVars
  /\ UNCHANGED taskVars

\* http::serve().await returns, with an error or without, and main with it.
MainReturn ==
  /\ main = "serving"
  /\ \E e \in {"Ok", "http: serve failed"} : Fail(e)
  /\ UNCHANGED <<db, inst, path, fs, dirlog>>
  /\ UNCHANGED engineVars
  /\ UNCHANGED taskVars

\* A caller of get_instance on the empty cell: expect panics.
Abort(t) ==
  /\ main # "exited"
  /\ pc[t] = "idle"
  /\ get_instance(inst) = "panic"
  /\ pc' = [pc EXCEPT ![t] = "panicked"]
  /\ UNCHANGED <<db, lock, queue, req, res, order, seen, calls>>
  /\ UNCHANGED engineVars
  /\ UNCHANGED bootVars

\* The calls made in the start-up model: one write and the query on it.
BootCalls ==
  {c \in TaskCalls : c.kind = "add_metric" => c.metric = Metric(<<"a">>, <<"b">>, 9, Num(5))}

BootNext ==
  \/ MainCreateDir
  \/ MainOpen
  \/ MainSet
  \/ MainServe
  \/ MainReturn
  \/ \E t \in Tasks : Abort(t)
  \/ \E t \in Tasks, c \in BootCalls : Request(t, c)
  \/ \E t \in Tasks : Acquire(t)
  \/ \E t \in Tasks : Run(t)
  \/ \E t \in Tasks : Release(t)

BootSpec == BootInit /\ [][BootNext]_vars

(***************************************************************************)
(* create_db_dir called again and again on one path.                       *)
(***************************************************************************)
\* The number of create_db_dir calls made in a row.
MaxDirCalls == 2

CreateDbDir ==
  /\ Len(dirlog) < MaxDirCalls
  /\ LET r == create_db_dir(fs, path)
     IN  /\ dirlog' = Append(dirlog, r)
         /\ fs' = r.fs
  /\ UNCHANGED <<db, main, inst, path, steps, exit>>
  /\ UNCHANGED engineVars
  /\ UNCHANGED taskVars

DirNext == CreateDbDir

DirSpec == BootInit /\ [][DirNext]_vars

(***************************************************************************)
(* Vocabulary of the properties.                                           *)
(***************************************************************************)
IsQuery == call.kind = "get_metrics"

\* The keys the last get_metrics call iterated over, in scan order; entry i
\* of an Ok result was decoded from Scanned[i].
Scanned == prefix_iterator(db, encodePrefix(call.name, call.key))

KeyOf(m) == encodeKey(m.name, m.key, m.timestamp)

SameTriple(m, n) ==
  m.name = n.name /\ m.key = n.key /\ m.timestamp = n.timestamp

\* Every add_metric so far had a name and a key without the delimiter:
\* nothing is ever deleted, and a stored key has exactly two delimiters
\* precisely when neither of the two fields held one.
CleanStore == \A k \in DOMAIN db : Len(Split(k)) = 3

\* The value whose text the store holds at key k.
Stored(k) == CHOOSE v \in Values : f64_to_string(v) = db[k]

\* get_metrics(s.name, s.key) called directly after add_metric(s), every
\* add_metric so far (s included) delimiter-free.
RoundTripCase ==
  /\ IsQuery
  /\ pred.some
  /\ call.name = pred.metric.name
  /\ call.key = pred.metric.key
  /\ CleanStore

Returned(m) ==
  /\ ret.tag = "Ok"
  /\ \E i \in DOMAIN ret.metrics : metric_eq(ret.metrics[i], m)

\* C1 as stated: for every delimiter-free Sample s, on a store written by
\* delimiter-free ingests, add_metric(s) directly followed by
\* get_metrics(s.name, s.key) succeeds and the result contains a Sample equal
\* to s.
C1_RoundTrip_AsStated == RoundTripCase => Returned(pred.metric)

\* C1, amended: the same, for every such Sample whose value is not NaN (a
\* NaN is stored and read back as NaN, which equals nothing).
C1_RoundTrip == (RoundTripCase /\ ~pred.metric.value.nan) => Returned(pred.metric)

C1_Witness ==
  /\ RoundTripCase
  /\ ~pred.metric.value.nan
  /\ Cardinality(DOMAIN db) >= 2
  /\ Returned(pred.metric)

\* get_metrics on the series of the last value-changing overwrite.
LwwCase ==
  /\ IsQuery
  /\ lww.some
  /\ call.name = lww.metric.name
  /\ call.key = lww.metric.key

OnlySecond ==
  /\ ret.tag = "Ok"
  /\ Cardinality({i \in DOMAIN ret.metrics : SameTriple(ret.metrics[i], lww.metric)}) = 1
  /\ \A i \in DOMAIN ret.metrics :
       SameTriple(ret.metrics[i], lww.metric) => ret.metrics[i].value = lww.metric.value

FirstGone ==
  ret.tag = "Ok" =>
    \A i \in DOMAIN ret.metrics :
      SameTriple(ret.metrics[i], lww.metric) => ret.metrics[i].value = lww.metric.value

C3_SeriesIsolation ==
  (IsQuery /\ ret.tag = "Ok") =>
    \A i \in DOMAIN ret.metrics :
      ret.metrics[i].name = call.name /\ ret.metrics[i].key = call.key

\* No Sample of the series (A, B) was ever ingested: the store holds no key
\* that encodes (A, B, t) for a timestamp t.
NeverIngested(name, key) ==
  \A k \in DOMAIN db :
    LET parts == Split(k)
    IN  ~(/\ Len(parts) = 3 + (Len(Split(name)) - 1) + (Len(Split(key)) - 1)
          /\ k = encodePrefix(name, key) \o parts[Len(parts)])

\* C4: get_metrics(A, B) on a series nothing was ever ingested for returns
\* Ok with an empty sequence, whatever else the store holds.
C4_EmptyResult ==
  (IsQuery /\ NeverIngested(call.name, call.key)) => ret = Ok(<<>>)

AllTimestamps == UNION {Timestamps(sr) : sr \in Series}

CleanCall == ~HasDelim(call.name) /\ ~HasDelim(call.key)

\* C7: in the result of get_metrics(A, B) the Samples ingested into the
\* series (A, B) come in the byte order of the decimal text of their
\* timestamps, whatever their numeric order: a Sample decoded from the key
\* of (A, B, t) stands before one decoded from the key of (A, B, u) only if
\* the text of t sorts before the text of u. (A series whose name or key
\* holds the delimiter gets none of its Samples back, C9.)
C7_ScanOrder ==
  (IsQuery /\ CleanCall /\ ret.tag = "Ok") =>
    LET scanned == Scanned
    IN  \A i, j \in DOMAIN ret.metrics : \A t, u \in AllTimestamps :
          ( /\ i < j
            /\ scanned[i] = encodeKey(call.name, call.key, t)
            /\ scanned[j] = encodeKey(call.name, call.key, u) ) =>
          /\ ret.metrics[i] = Metric(call.name, call.key, t, Stored(scanned[i]))
          /\ ret.metrics[j] = Metric(call.name, call.key, u, Stored(scanned[j]))
          /\ LexLess(U64ToString(t), U64ToString(u))

\* Timestamp 9 was ingested before timestamp 10, and the result has the
\* timestamp-10 Sample first.
C7_Witness ==
  /\ IsQuery /\ CleanCall /\ ret.tag = "Ok"
  /\ pred.some /\ pred.metric.timestamp = 10
  /\ Len(ret.metrics) = 2
  /\ SameTriple(ret.metrics[1], Metric(call.name, call.key, 10, NaN))
  /\ SameTriple(ret.metrics[2], Metric(call.name, call.key, 9, NaN))

\* The store holds Samples of the one delimiter-free series (A, B) only,
\* none of them overwritten with another value, their timestamps all of one
\* digit count, and get_metrics(A, B) was called.
OneSeriesCase ==
  /\ IsQuery /\ CleanCall
  /\ ~lww.some
  /\ DOMAIN db # {}
  /\ \A k \in DOMAIN db :
       \E t \in AllTimestamps : k = encodeKey(call.name, call.key, t)
  /\ \A k1, k2 \in DOMAIN db : Len(k1) = Len(k2)

\* The result is the Samples of the store, each once, in ascending numeric
\* timestamp order.
ExactAscending ==
  /\ ret.tag = "Ok"
  /\ Len(ret.metrics) = Cardinality(DOMAIN db)
  /\ \A i \in DOMAIN ret.metrics :
       LET m == ret.metrics[i]
       IN  /\ m.name = call.name
           /\ m.key = call.key
           /\ KeyOf(m) \in DOMAIN db
           /\ m.value = Stored(KeyOf(m))
           /\ \A j \in DOMAIN ret.metrics : i < j => m.timestamp < ret.metrics[j].timestamp

\* C8: on a store that started empty and holds Samples of one delimiter-free
\* series with distinct timestamps of one digit count, get_metrics on the
\* series returns exactly those Samples in ascending numeric timestamp order.
C8_EndToEnd == OneSeriesCase => ExactAscending

C8_Witness ==
  /\ OneSeriesCase
  /\ ExactAscending
  /\ Len(ret.metrics) = 2
  /\ ret.metrics[1].value # ret.metrics[2].value

\* C9: once a Sample s whose key holds the delimiter is stored, a query whose
\* scan reaches s's stored key fails with a decode error or returns, for that
\* entry, a Sample whose (name, key, timestamp) is not s's.
C9_DelimiterCollision ==
  IsQuery =>
    LET scanned == Scanned
    IN  \A s \in Metrics :
          (HasDelim(s.key) /\ \E i \in DOMAIN scanned : scanned[i] = KeyOf(s)) =>
            \/ ret.tag = "Err"
            \/ /\ ret.tag = "Ok"
               /\ \A i \in DOMAIN scanned :
                    scanned[i] = KeyOf(s) => ~SameTriple(ret.metrics[i], s)

\* A query succeeded over the entry of a Sample whose key holds the
\* delimiter, and gave back a Sample of the same name with another triple.
C9_Witness ==
  /\ IsQuery /\ ret.tag = "Ok"
  /\ \E s \in Metrics : \E i \in DOMAIN Scanned :
       /\ HasDelim(s.key)
       /\ Scanned[i] = KeyOf(s)
       /\ ~SameTriple(ret.metrics[i], s)
       /\ ret.metrics[i].name = s.name

\* C10: a query that scans a key that does not split into exactly three
\* parts fails with a decode error: an Ok result was decoded from three-part
\* keys only.
C10_ExactlyThreeParts ==
  (IsQuery /\ ret.tag = "Ok") =>
    \A i \in DOMAIN Scanned : Len(Split(Scanned[i])) = 3

\* The tasks inside the store: holding the guard, before or after the call.
Inside == {t \in Tasks : pc[t] \in {"locked", "ran"}}

\* C5: every add_metric and every get_metrics runs under the one exclusive
\* lock: at most one task, whatever its call, is inside the store, and it is
\* the holder of the lock.
C5_MutualExclusion ==
  /\ Cardinality(Inside) <= 1
  /\ \A t \in Inside : lock = t

\* A query is inside the store while another query waits for the lock.
C5_Witness ==
  \E t, u \in Tasks :
    /\ pc[t] = "locked" /\ req[t].kind = "get_metrics"
    /\ pc[u] = "waiting" /\ req[u].kind = "get_metrics"

\* The store after the given add_metric calls, made one after the other on
\* an empty store.
RECURSIVE Replay(_)
Replay(samples) ==
  IF samples = <<>> THEN <<>>
  ELSE add_metric(Replay(SubSeq(samples, 1, Len(samples) - 1)), samples[Len(samples)])

Answered(t) == req[t].kind = "get_metrics" /\ res[t].tag # "none"

Before(t) == SubSeq(order, 1, seen[t])

\* C6: the result of every query is the result of get_metrics on the store
\* made by exactly the add_metric calls that took the lock before it, in
\* that order: it holds each of their Samples not overwritten by a later one
\* of them, and no Sample of a call that took the lock after the query.
C6_LockOrderVisibility ==
  \A t \in Tasks :
    Answered(t) =>
      /\ res[t] = get_metrics(Replay(Before(t)), req[t].name, req[t].key)
      /\ \A i \in 1..seen[t] :
           (\A j \in (i + 1)..seen[t] : KeyOf(order[j]) # KeyOf(order[i])) =>
             \E n \in DOMAIN res[t].metrics : res[t].metrics[n] = order[i]
      /\ \A n \in DOMAIN res[t].metrics :
           \E i \in 1..seen[t] : res[t].metrics[n] = order[i]

\* A query answered between two writes: it shows the first and not the
\* second, which is in the store by now.
C6_Witness ==
  \E t \in Tasks :
    /\ Answered(t)
    /\ 1 <= seen[t] /\ seen[t] < Len(order)
    /\ res[t].metrics # <<>>
    /\ db # Replay(Before(t))

\* C11: if any entry of the scan fails to decode, wherever it stands, the
\* query returns an error and no Sample.
C11_AllOrNothing ==
  LET scanned == Scanned
  IN  (IsQuery /\ \E i \in DOMAIN scanned : decode(db, scanned[i]).tag = "Err") =>
        (ret.tag = "Err" /\ ret.metrics = <<>>)

\* The first entry of the scan decoded, the second did not, and the query
\* returned the error.
C11_Witness ==
  /\ IsQuery
  /\ Len(Scanned) >= 2
  /\ decode(db, Scanned[1]).tag = "Ok"
  /\ decode(db, Scanned[2]).tag = "Err"
  /\ ret.tag = "Err"

\* C16: on a store written by delimiter-free ingests, get_metrics(A, B) for
\* delimiter-free A and B returns one Sample per timestamp ingested for
\* (A, B), with the value last ingested there, and nothing else.
C16_ExactSeries ==
  (IsQuery /\ CleanCall /\ CleanStore) =>
    /\ ret.tag = "Ok"
    /\ \A t \in AllTimestamps :
         LET k == encodeKey(call.name, call.key, t)
         IN  k \in DOMAIN db =>
               Cardinality({i \in DOMAIN ret.metrics :
                              ret.metrics[i] = Metric(call.name, call.key, t, Stored(k))}) = 1
    /\ \A i \in DOMAIN ret.metrics :
         /\ ret.metrics[i].name = call.name
         /\ ret.metrics[i].key = call.key
         /\ KeyOf(ret.metrics[i]) \in DOMAIN db
         /\ ret.metrics[i].value = Stored(KeyOf(ret.metrics[i]))

\* C17: a get_metrics call, whatever it returns, leaves the store as it was,
\* and returns what the same call returned just before it; an add_metric
\* call changes the entry at its Sample's key and no other entry.
C17_ReadOnlyQuery ==
  [][/\ call'.kind = "get_metrics" =>
          /\ db' = db
          /\ (IsQuery /\ call'.name = call.name /\ call'.key = call.key) => ret' = ret
     /\ call'.kind = "add_metric" =>
          LET k == KeyOf(call'.metric)
          IN  /\ DOMAIN db' = DOMAIN db \cup {k}
              /\ \A j \in DOMAIN db \ {k} : db'[j] = db[j]]_vars

\* The same query made twice in a row on a store of two entries, with
\* Samples returned.
C17_Witness ==
  /\ IsQuery
  /\ again
  /\ Cardinality(DOMAIN db) >= 2
  /\ ret.tag = "Ok"
  /\ ret.metrics # <<>>

\* C18: after add_metric calls with any names and keys, empty and
\* delimiter-bearing ones included, every stored key splits into at least
\* three parts, and get_metrics returns Ok or Err and never panics.
C18_NoOutOfBounds ==
  /\ \A k \in DOMAIN db : Len(Split(k)) >= 3
  /\ IsQuery => ret.tag \in {"Ok", "Err"}

\* A query that scanned the key of an empty name and an empty key, "::9".
C18_Witness ==
  /\ IsQuery
  /\ \E i \in DOMAIN Scanned : Scanned[i] = encodeKey(<<>>, <<>>, 9)
  /\ \E k \in DOMAIN db : Len(Split(k)) > 3
  /\ ret.tag \in {"Ok", "Err"}

\* C13: the instance cell goes from unset to set and never back; a call is
\* made on the engine only once the cell is set, and a caller of
\* get_instance on the unset cell panics instead.
C13_LifeCycle ==
  /\ []((calls > 0 \/ db # <<>> \/ \E t \in Tasks : pc[t] \in {"waiting", "locked", "ran"})
          => inst = "set")
  /\ [][/\ inst = "set" => inst' = "set"
        /\ \A t \in Tasks :
             (inst = "unset" /\ pc[t] = "idle" /\ pc'[t] # "idle") => pc'[t] = "panicked"]_vars

\* One caller came before the cell was set and panicked; another came after
\* and got its result.
C13_Witness ==
  \E t \in Tasks, u \in Tasks :
    /\ pc[t] = "panicked"
    /\ inst = "set"
    /\ res[u].tag = "Ok"
    /\ req[u].kind = "add_metric"
    /\ db # <<>>

\* The errors main can return from its start-up steps.
StartupErrors ==
  {"Failed to get the data directory", PermissionMessage, MiscMessage,
   "rocksdb: open failed", "Failed to set Metrical instance"}

\* C14: http::serve is reached only after create_db_dir, Metrical::new and
\* INSTANCE.set succeeded, in that order; when one of them fails, main has
\* returned that step's error and no call was ever made on the engine.
C14_StartupOrder ==
  /\ steps = SubSeq(StartupSteps, 1, Len(steps))
  /\ main = "serving" =>
       /\ steps = StartupSteps
       /\ dirlog[1].tag = "Ok"
       /\ inst = "set"
  /\ (dirlog # <<>> /\ dirlog[1].tag = "Err") =>
       (main = "exited" /\ exit = dirlog[1].err /\ steps = <<>>)
  /\ exit \in StartupErrors =>
       /\ main = "exited"
       /\ Len(steps) < Len(StartupSteps)
       /\ calls = 0
       /\ db = <<>>
       /\ \A t \in Tasks : pc[t] \in {"idle", "panicked"}
       /\ exit = CASE steps = <<>> -> dirlog[1].err
                   [] Len(steps) = 1 -> "rocksdb: open failed"
                   [] OTHER -> "Failed to set Metrical instance"

\* The directory was made, the store failed to open, main returned that
\* error, and a caller that came meanwhile panicked.
C14_Witness ==
  /\ exit = "rocksdb: open failed"
  /\ steps = <<"create_db_dir">>
  /\ dirlog[1].io = "Ok"
  /\ \E t \in Tasks : pc[t] = "panicked"

\* C15: when a create_db_dir call succeeded, the next call on the same path
\* succeeds too and leaves the directories as they were; AlreadyExists from
\* create_dir_all is returned as Ok, PermissionDenied and any other error as
\* Err, each with its own message.
C15_DirIdempotence ==
  /\ (Len(dirlog) >= 2 /\ dirlog[1].tag = "Ok") =>
       (dirlog[2].tag = "Ok" /\ dirlog[2].fs = dirlog[1].fs)
  /\ \A i \in DOMAIN dirlog :
       LET o == dirlog[i]
       IN  /\ o.io \in {"Ok", "AlreadyExists"} => o.tag = "Ok"
           /\ o.io = "PermissionDenied" => (o.tag = "Err" /\ o.err = PermissionMessage)
           /\ o.io \notin {"none", "Ok", "AlreadyExists", "PermissionDenied"} =>
                (o.tag = "Err" /\ o.err = MiscMessage)
  /\ PermissionMessage # MiscMessage

\* Two calls on the default path: the first made the directory, the second
\* found it there.
C15_Witness ==
  /\ path = DefaultPath
  /\ Len(dirlog) = 2
  /\ dirlog[1].io = "Ok"
  /\ dirlog[2].tag = "Ok"
  /\ fs.metrical = "dir"

\* C12: a task that is not inside a call does not hold the lock, whatever
\* its call returned; with no task inside a call the lock is free, and the
\* task at the head of the queue can acquire it.
C12_LockReleased ==
  /\ \A t \in Tasks : pc[t] \in {"idle", "waiting"} => lock # t
  /\ (\A t \in Tasks : pc[t] \notin {"locked", "ran"}) =>
       /\ lock = "free"
       /\ queue # <<>> => ENABLED Acquire(Head(queue))

\* One task's query ended with a decode error, and the other acquired the
\* lock after it.
C12_Witness ==
  \E t \in Tasks, u \in Tasks :
    /\ pc[t] = "idle"
    /\ req[t].kind = "get_metrics"
    /\ res[t] = Err("ParseIntError")
    /\ pc[u] = "locked"
    /\ lock = u

\* C19: under a lock that serves its queue in order, every task that has
\* requested the lock, or holds it, gets to the end of its call with a
\* result or an error and no longer holds the lock.
C19_Progress ==
  \A t \in Tasks :
    (pc[t] # "idle") ~> (pc[t] = "idle" /\ res[t].tag \in {"Ok", "Err"} /\ lock # t)

\* One task waits in the queue while the other, holding the lock, has got
\* an error from its call.
C19_Witness ==
  \E t \in Tasks, u \in Tasks :
    /\ pc[t] = "waiting"
    /\ Head(queue) = t
    /\ lock = u
    /\ pc[u] = "ran"
    /\ res[u].tag = "Err"

=============================================================================
